---------------------------- MODULE Spec2Model ----------------------------
(***************************************************************************)
(* Model of synapseclient/upload_functions.py: upload_file and its four    *)
(* executors (create_external_file_handle, upload_synapse_s3,              *)
(* upload_external_file_handle_sftp, upload_client_auth_s3).               *)
(*                                                                         *)
(* Every call of a collaborator (destination resolver, credential source,  *)
(* transfer engines, file-handle issuance, cache) is recorded, in program  *)
(* order, as an event of the per-call log.  A collaborator call either     *)
(* returns or raises; the first one that raises ends the call.             *)
(***************************************************************************)
EXTENDS Integers, Sequences, FiniteSets, TLC

VARIABLES pc, local_state, args, log, cache, cache0, result, nextId, ncalls, disk

vars == <<pc, local_state, args, log, cache, cache0, result, nextId, ncalls, disk>>

(***************************************************************************)
(* Bounds                                                                  *)
(***************************************************************************)
\* number of upload_file calls in one behaviour
MaxCalls == 2

(***************************************************************************)
(* Python values                                                           *)
(***************************************************************************)
\* Python None in a string-valued slot
None == "None"
\* Python None in an integer-valued slot (contentSize, storageLocationId)
NoneInt == -1
\* a key that is missing from the local_state dict
Absent == "<absent>"

(***************************************************************************)
(* concrete_types                                                          *)
(***************************************************************************)
SYNAPSE_S3_UPLOAD_DESTINATION == "org.sagebionetworks.repo.model.file.S3UploadDestination"
EXTERNAL_S3_UPLOAD_DESTINATION == "org.sagebionetworks.repo.model.file.ExternalS3UploadDestination"
EXTERNAL_UPLOAD_DESTINATION == "org.sagebionetworks.repo.model.file.ExternalUploadDestination"
EXTERNAL_OBJECT_STORE_UPLOAD_DESTINATION == "org.sagebionetworks.repo.model.file.ExternalObjectStoreUploadDestination"
FUTURE_KIND == "FutureKind"

(***************************************************************************)
(* Input domains                                                           *)
(***************************************************************************)
\* values of local_state['path'] as the caller writes them
RawPaths == {"~/a.txt", "$TMP/b.txt"}
\* paths after expansion; the files the disk may hold
AbsPaths == {"/home/u/a.txt", "/tmp/b.txt"}
PathInputs == {Absent, None} \cup RawPaths
UrlInputs == {None, "file:///tmp/b.txt", "https://host/c.txt", "not a url"}
Md5Inputs == {None, "m1", "bad"}
SizeInputs == {NoneInt, 7}
TypeInputs == {None, "text/plain"}

LocalStates ==
    [synapseStore : BOOLEAN, path : PathInputs,
     file_handle : [externalURL : UrlInputs, contentMd5 : Md5Inputs,
                    contentSize : SizeInputs, contentType : TypeInputs]]

\* a file of the disk: missing, or a regular file with its digest and size
NoFile == [isfile |-> FALSE, md5 |-> None, size |-> NoneInt]
FileA == [isfile |-> TRUE, md5 |-> "m1", size |-> 1]
Disks == [AbsPaths -> {NoFile, FileA}]
\* between calls the model keeps no picture of the disk
NoDisk == [p \in AbsPaths |-> NoFile]

(***************************************************************************)
(* os.path                                                                 *)
(***************************************************************************)
\* os.path.expanduser: a leading "~" becomes the home directory
expanduser(p) == IF p = "~/a.txt" THEN "/home/u/a.txt" ELSE p

\* os.path.expandvars: $TMP is replaced by its value
expandvars(p) == IF p = "$TMP/b.txt" THEN "/tmp/b.txt" ELSE p

\* faulty variant: environment variables are not expanded
ExpandPath_NoVars(p) == expanduser(p)

\* os.path.expandvars(os.path.expanduser(path))
ExpandPath(p) == expandvars(expanduser(p))

\* os.path.basename
basename(p) ==
    CASE p = "/home/u/a.txt" -> "a.txt"
      [] p = "/tmp/b.txt" -> "b.txt"
      [] OTHER -> p

\* os.path.isfile
isfile(d, p) == p \in DOMAIN d /\ d[p].isfile

(***************************************************************************)
(* utils and urllib                                                        *)
(***************************************************************************)
\* utils.as_url: a path becomes a file:// URL
as_url(p) == "file://" \o p

\* urlparse: scheme, netloc and path of a URL string
urlparse(u) ==
    CASE u = "file:///home/u/a.txt" -> [scheme |-> "file", netloc |-> "", path |-> "/home/u/a.txt"]
      [] u = "file:///tmp/b.txt" -> [scheme |-> "file", netloc |-> "", path |-> "/tmp/b.txt"]
      [] u = "https://host/c.txt" -> [scheme |-> "https", netloc |-> "host", path |-> "/c.txt"]
      [] u = "sftp://host/my%20dir" -> [scheme |-> "sftp", netloc |-> "host", path |-> "/my%20dir"]
      [] OTHER -> [scheme |-> "", netloc |-> "", path |-> u]

\* utils.is_url: a file URL with a path, or any URL with a scheme and a host
is_url(u) ==
    LET url == urlparse(u)
    IN  \/ url.scheme = "file" /\ url.path /= ""
        \/ url.scheme /= "" /\ url.netloc /= ""

\* utils.file_url_to_path: the local path of a file:// URL
file_url_to_path(u) ==
    LET url == urlparse(u)
    IN  IF url.scheme = "file" THEN url.path ELSE None

\* urllib unquote: percent-decoding
unquote(u) == IF u = "sftp://host/my%20dir" THEN "sftp://host/my dir" ELSE u


\* utils.md5_for_file(path).hexdigest(); reading a missing file raises IOError
md5_for_file(d, p) == d[p].md5

\* os.stat(path).st_size
st_size(d, p) == d[p].size

(***************************************************************************)
(* Collaborators: what they return.  Handle ids come from nextId, the      *)
(* server's counter; this module never makes one up.                       *)
(***************************************************************************)
\* syn._create_ExternalFileHandle(url, mimetype, md5, fileSize)
ExternalFileHandle(id, url, mimetype, md5, fileSize) ==
    [id |-> id, concreteType |-> "ExternalFileHandle", externalURL |-> url,
     contentType |-> mimetype, contentMd5 |-> md5, contentSize |-> fileSize]

\* syn._create_ExternalObjectStoreFileHandle(file_key, file_path, storage_location_id, mimetype)
ExternalObjectStoreFileHandle(id, file_key, file_path, storage_location_id, mimetype) ==
    [id |-> id, concreteType |-> "ExternalObjectStoreFileHandle", fileKey |-> file_key,
     storageLocationId |-> storage_location_id, contentType |-> mimetype]

\* syn._getFileHandle(id): the record of the handle with that id
S3FileHandle(id) == [id |-> id, concreteType |-> "S3FileHandle"]

\* SFTPWrapper.upload_file returns the URL the file was uploaded to
UploadedUrl(file_path, sftp_url) == sftp_url \o "/" \o basename(file_path)

(***************************************************************************)
(* Destination descriptors returned by syn._getDefaultUploadDestination    *)
(***************************************************************************)
Location(kind, sl, ut) ==
    [concreteType |-> kind, storageLocationId |-> sl, uploadType |-> ut,
     url |-> "sftp://host/my%20dir", bucket |-> "b",
     endpointUrl |-> "https://o.example", keyPrefixUUID |-> "p1", banner |-> ""]

StorageLocationIds == {1, 2}

Locations ==
    {Location(SYNAPSE_S3_UPLOAD_DESTINATION, sl, "S3") : sl \in StorageLocationIds}
    \cup {Location(EXTERNAL_S3_UPLOAD_DESTINATION, sl, "S3") : sl \in StorageLocationIds}
    \cup {Location(EXTERNAL_UPLOAD_DESTINATION, 1, ut) : ut \in {"SFTP", "HTTPS"}}
    \cup {Location(EXTERNAL_OBJECT_STORE_UPLOAD_DESTINATION, 2, "S3"),
          Location(FUTURE_KIND, 2, "S3")}

(***************************************************************************)
(* The log of one call                                                     *)
(***************************************************************************)
\* the events of a call up to and including the first one that raises
RECURSIVE Run(_)
Run(steps) ==
    IF steps = <<>> THEN <<>>
    ELSE IF ~Head(steps).ok THEN <<Head(steps)>>
    ELSE <<Head(steps)>> \o Run(Tail(steps))

\* whether some event of the trace raised
Raised(t) == t /= <<>> /\ ~t[Len(t)].ok

\* the exception a raising collaborator call surfaces as (propagated unchanged)
ErrorOf(e) == IF e.op = "md5_for_file" THEN "IOError" ELSE "Error in " \o e.op

\* the (handle id, path) entries the trace's cache.add calls register, in order
RECURSIVE CacheAdds(_)
CacheAdds(t) ==
    IF t = <<>> THEN <<>>
    ELSE IF Head(t).op = "cache.add"
         THEN <<(<<Head(t).id, Head(t).path>>)>> \o CacheAdds(Tail(t))
         ELSE CacheAdds(Tail(t))

\* the number of handle ids the server issued during the trace
RECURSIVE Issued(_)
Issued(t) ==
    IF t = <<>> THEN 0
    ELSE (IF Head(t).ok /\ Head(t).op \in {"multipart_upload", "_create_ExternalFileHandle",
                                            "_create_ExternalObjectStoreFileHandle"}
          THEN 1 ELSE 0) + Issued(Tail(t))

NoResult == [status |-> "none"]
Failure(e) == [status |-> "error", error |-> e]
Success(h) == [status |-> "ok", handle |-> h]
NoArgs == [none |-> TRUE]

(***************************************************************************)
(* upload_file, synapseStore false: the external reference                 *)
(***************************************************************************)
\* externalURL is preferred over path; None when both are unset
AuthoritativeUrl(ls) ==
    IF ls.file_handle.externalURL /= None THEN ls.file_handle.externalURL
    ELSE IF ls.path \notin {None, Absent} THEN as_url(ExpandPath(ls.path))
    ELSE None

\* faulty variant: the file is not looked for on the disk
IsLocalFile_NoIsfile(d, externalUrl) == urlparse(externalUrl).scheme = "file"

\* url.scheme == 'file' and os.path.isfile(url.path)
IsLocalFile(d, externalUrl) ==
    LET url == urlparse(externalUrl)
    IN  url.scheme = "file" /\ isfile(d, url.path)

\* faulty variant: the supplied digest is compared with itself
Md5Mismatch_SelfCompare(md5, actual_md5) == md5 /= None /\ md5 /= md5

\* md5 is not None and md5 != actual_md5
Md5Mismatch(md5, actual_md5) == md5 /= None /\ md5 /= actual_md5

\* faulty variant: the supplied size is kept
VerifiedMetadata_KeepsSize(md5, file_size, actual_md5, actual_size) ==
    [md5 |-> actual_md5, file_size |-> file_size, is_local_file |-> TRUE]

\* md5 = actual_md5; file_size = os.stat(url.path).st_size; is_local_file = True
VerifiedMetadata(md5, file_size, actual_md5, actual_size) ==
    [md5 |-> actual_md5, file_size |-> actual_size, is_local_file |-> TRUE]

\* the md5 and file_size of the file handle, is_local_file = False
SuppliedMetadata(md5, file_size) ==
    [md5 |-> md5, file_size |-> file_size, is_local_file |-> FALSE]

DigestEvent(d, p) == [op |-> "md5_for_file", path |-> p, ok |-> isfile(d, p)]

\* the branch `if not local_state['synapseStore']` up to the call of
\* create_external_file_handle: the error raised (None when none), the
\* events so far and the arguments of the call
ExternalReference(ls, d) ==
    LET externalUrl == AuthoritativeUrl(ls)
        md5 == ls.file_handle.contentMd5
        file_size == ls.file_handle.contentSize
        mimetype == ls.file_handle.contentType
        call(m) == [url |-> externalUrl, mimetype |-> mimetype, md5 |-> m.md5,
                    file_size |-> m.file_size, is_local_file |-> m.is_local_file]
    IN  IF externalUrl = None
        THEN [error |-> "ValueError", events |-> <<>>, args |-> NoArgs]
        ELSE IF ~is_url(externalUrl)
        THEN [error |-> "ValueError", events |-> <<>>, args |-> NoArgs]
        ELSE IF IsLocalFile(d, externalUrl)
        THEN LET path == urlparse(externalUrl).path
                 actual_md5 == md5_for_file(d, path)
             IN  IF Md5Mismatch(md5, actual_md5)
                 THEN [error |-> "SynapseMd5MismatchError",
                       events |-> <<DigestEvent(d, path)>>, args |-> NoArgs]
                 ELSE [error |-> None, events |-> <<DigestEvent(d, path)>>,
                       args |-> call(VerifiedMetadata(md5, file_size, actual_md5,
                                                      st_size(d, path)))]
        ELSE [error |-> None, events |-> <<>>,
              args |-> call(SuppliedMetadata(md5, file_size))]

(***************************************************************************)
(* upload_file, synapseStore true: path expansion and dispatch             *)
(***************************************************************************)
\* faulty variant: the test is inverted
IsExternalReference_Inverted(ls) == ls.synapseStore

\* `if not local_state['synapseStore']`
IsExternalReference(ls) == ~ls.synapseStore

\* faulty variant: a None path is passed on
PathLookupErrors_NoneAccepted(path) == IF path = Absent THEN {"KeyError"} ELSE {}

\* what local_state['path'] and the expansion of its value can raise: KeyError
\* for a missing key; for None, TypeError (Python 3) or AttributeError (Python 2)
PathLookupErrors(path) ==
    IF path = Absent THEN {"KeyError"}
    ELSE IF path = None THEN {"TypeError", "AttributeError"}
    ELSE {}

\* faulty variant: the upload type is not looked at
SftpSupported_Any(uploadType) == TRUE

\* location['uploadType'] == 'SFTP'
SftpSupported(uploadType) == uploadType = "SFTP"

\* the executor the if/elif chain on location['concreteType'] calls, or the
\* error it raises
Strategy(location) ==
    LET t == location.concreteType
    IN  IF t = SYNAPSE_S3_UPLOAD_DESTINATION \/ t = EXTERNAL_S3_UPLOAD_DESTINATION
        THEN "upload_synapse_s3"
        ELSE IF t = EXTERNAL_UPLOAD_DESTINATION
        THEN IF SftpSupported(location.uploadType)
             THEN "upload_external_file_handle_sftp"
             ELSE "NotImplementedError"
        ELSE IF t = EXTERNAL_OBJECT_STORE_UPLOAD_DESTINATION
        THEN "upload_client_auth_s3"
        ELSE "upload_synapse_s3"

\* faulty variant: the fallback passes the descriptor's storageLocationId on
StorageLocationArg_Always(location) == location.storageLocationId

\* the storageLocationId upload_synapse_s3 is called with: the descriptor's
\* for the two S3 kinds, None for an unknown kind
StorageLocationArg(location) ==
    LET t == location.concreteType
    IN  IF t = SYNAPSE_S3_UPLOAD_DESTINATION \/ t = EXTERNAL_S3_UPLOAD_DESTINATION
        THEN location.storageLocationId
        ELSE NoneInt

\* the arguments the chosen executor is called with
ExecutorArgs(location, expanded_upload_path, mimetype) ==
    CASE Strategy(location) = "upload_synapse_s3" ->
            [file_path |-> expanded_upload_path,
             storageLocationId |-> StorageLocationArg(location), mimetype |-> mimetype]
      [] Strategy(location) = "upload_external_file_handle_sftp" ->
            [file_path |-> expanded_upload_path, sftp_url |-> location.url,
             mimetype |-> mimetype]
      [] Strategy(location) = "upload_client_auth_s3" ->
            [file_path |-> expanded_upload_path, bucket |-> location.bucket,
             endpoint_url |-> location.endpointUrl,
             key_prefix |-> location.keyPrefixUUID,
             storage_location_id |-> location.storageLocationId, mimetype |-> mimetype]
      [] OTHER -> NoArgs

\* syn._getDefaultUploadDestination(entity_parent_id) and what it returned
ResolveEvent(ok, location) ==
    [op |-> "_getDefaultUploadDestination", ok |-> ok,
     location |-> IF ok THEN location ELSE NoArgs]

(***************************************************************************)
(* The executors: the collaborator calls each makes, in program order.     *)
(* id is the handle id the server issues if asked; the ok flags say which  *)
(* collaborator calls return.                                              *)
(***************************************************************************)
CacheAddEvent(id, path) == [op |-> "cache.add", id |-> id, path |-> path, ok |-> TRUE]

CreateExternalEvent(id, url, mimetype, md5, fileSize, ok) ==
    [op |-> "_create_ExternalFileHandle", id |-> id, url |-> url, mimetype |-> mimetype,
     md5 |-> md5, fileSize |-> fileSize, ok |-> ok]

\* create_external_file_handle
CreateExternalFileHandleSteps(a, id, okCreate) ==
    <<CreateExternalEvent(id, a.url, a.mimetype, a.md5, a.file_size, okCreate)>>
    \o (IF a.is_local_file
        THEN <<CacheAddEvent(id, file_url_to_path(a.url))>>
        ELSE <<>>)

CreateExternalFileHandleResult(a, id) ==
    ExternalFileHandle(id, a.url, a.mimetype, a.md5, a.file_size)

\* faulty variant: the handle is issued before the file is transferred
UploadExternalFileHandleSftpSteps_IssueFirst(a, d, id, okCred, okUpload, okCreate) ==
    <<[op |-> "_getUserCredentials", url |-> a.sftp_url, ok |-> okCred],
      DigestEvent(d, a.file_path),
      CreateExternalEvent(id, UploadedUrl(a.file_path, unquote(a.sftp_url)), a.mimetype,
                          md5_for_file(d, a.file_path), st_size(d, a.file_path), okCreate),
      [op |-> "SFTPWrapper.upload_file", path |-> a.file_path,
       url |-> unquote(a.sftp_url), ok |-> okUpload],
      CacheAddEvent(id, a.file_path)>>

\* upload_external_file_handle_sftp
UploadExternalFileHandleSftpSteps(a, d, id, okCred, okUpload, okCreate) ==
    <<[op |-> "_getUserCredentials", url |-> a.sftp_url, ok |-> okCred],
      [op |-> "SFTPWrapper.upload_file", path |-> a.file_path,
       url |-> unquote(a.sftp_url), ok |-> okUpload],
      DigestEvent(d, a.file_path),
      CreateExternalEvent(id, UploadedUrl(a.file_path, unquote(a.sftp_url)), a.mimetype,
                          md5_for_file(d, a.file_path), st_size(d, a.file_path), okCreate),
      CacheAddEvent(id, a.file_path)>>

UploadExternalFileHandleSftpResult(a, d, id) ==
    ExternalFileHandle(id, UploadedUrl(a.file_path, unquote(a.sftp_url)), a.mimetype,
                       md5_for_file(d, a.file_path), st_size(d, a.file_path))

\* upload_synapse_s3
UploadSynapseS3Steps(a, id, okUpload, okGet) ==
    <<[op |-> "multipart_upload", id |-> id, path |-> a.file_path,
       contentType |-> a.mimetype, storageLocationId |-> a.storageLocationId,
       ok |-> okUpload],
      CacheAddEvent(id, a.file_path),
      [op |-> "_getFileHandle", id |-> id, ok |-> okGet]>>

UploadSynapseS3Result(a, id) == S3FileHandle(id)

\* file_key = key_prefix + '/' + os.path.basename(file_path)
FileKey(key_prefix, file_path) == key_prefix \o "/" \o basename(file_path)

\* faulty variant: the path is registered before the handle is issued
UploadClientAuthS3Steps_RegisterFirst(a, id, okProfile, okUpload, okCreate) ==
    <<[op |-> "_get_client_authenticated_s3_profile", endpoint |-> a.endpoint_url,
       bucket |-> a.bucket, ok |-> okProfile],
      [op |-> "S3ClientWrapper.upload_file", bucket |-> a.bucket,
       endpoint |-> a.endpoint_url, key |-> FileKey(a.key_prefix, a.file_path),
       path |-> a.file_path, ok |-> okUpload],
      CacheAddEvent(id, a.file_path),
      [op |-> "_create_ExternalObjectStoreFileHandle", id |-> id,
       key |-> FileKey(a.key_prefix, a.file_path), path |-> a.file_path,
       storageLocationId |-> a.storage_location_id, mimetype |-> a.mimetype,
       ok |-> okCreate]>>

\* upload_client_auth_s3
UploadClientAuthS3Steps(a, id, okProfile, okUpload, okCreate) ==
    <<[op |-> "_get_client_authenticated_s3_profile", endpoint |-> a.endpoint_url,
       bucket |-> a.bucket, ok |-> okProfile],
      [op |-> "S3ClientWrapper.upload_file", bucket |-> a.bucket,
       endpoint |-> a.endpoint_url, key |-> FileKey(a.key_prefix, a.file_path),
       path |-> a.file_path, ok |-> okUpload],
      [op |-> "_create_ExternalObjectStoreFileHandle", id |-> id,
       key |-> FileKey(a.key_prefix, a.file_path), path |-> a.file_path,
       storageLocationId |-> a.storage_location_id, mimetype |-> a.mimetype,
       ok |-> okCreate],
      CacheAddEvent(id, a.file_path)>>

UploadClientAuthS3Result(a, id) ==
    ExternalObjectStoreFileHandle(id, FileKey(a.key_prefix, a.file_path), a.file_path,
                                  a.storage_location_id, a.mimetype)

(***************************************************************************)
(* State machine                                                           *)
(***************************************************************************)
Init ==
    /\ pc = "idle"
    /\ local_state = NoArgs
    /\ args = NoArgs
    /\ log = <<>>
    /\ cache = <<>>
    /\ cache0 = <<>>
    /\ result = NoResult
    /\ nextId = 1
    /\ ncalls = 0
    /\ disk = NoDisk

\* the call ends with exception e
Raise(e) ==
    /\ result' = Failure(e)
    /\ pc' = "done"
    /\ args' = NoArgs

\* upload_file up to the call of an executor; d is the disk as this call
\* finds it
UploadFile(ls, d, okResolve, location) ==
    /\ pc = "idle"
    /\ ncalls < MaxCalls
    /\ ncalls' = ncalls + 1
    /\ local_state' = ls
    /\ disk' = d
    /\ cache0' = cache
    /\ UNCHANGED <<cache, nextId>>
    /\ IF IsExternalReference(ls)
       THEN LET r == ExternalReference(ls, d)
            IN  /\ log' = r.events
                /\ IF r.error /= None
                   THEN Raise(r.error)
                   ELSE /\ args' = r.args
                        /\ pc' = "create_external_file_handle"
                        /\ result' = NoResult
       ELSE IF PathLookupErrors(ls.path) /= {}
       THEN /\ log' = <<>>
            /\ \E e \in PathLookupErrors(ls.path) : Raise(e)
       ELSE LET expanded_upload_path == ExpandPath(ls.path)
            IN  /\ log' = <<ResolveEvent(okResolve, location)>>
                /\ IF ~okResolve
                   THEN Raise(ErrorOf(ResolveEvent(okResolve, location)))
                   ELSE IF Strategy(location) = "NotImplementedError"
                   THEN Raise("NotImplementedError")
                   ELSE /\ args' = ExecutorArgs(location, expanded_upload_path,
                                                ls.file_handle.contentType)
                        /\ pc' = Strategy(location)
                        /\ result' = NoResult

\* an executor runs: its collaborator calls up to the first that raises, the
\* cache entries they register, and the handle returned or the error raised
Execute(steps, handle) ==
    LET t == Run(steps)
    IN  /\ log' = log \o t
        /\ cache' = cache \o CacheAdds(t)
        /\ nextId' = nextId + Issued(t)
        /\ result' = IF Raised(t) THEN Failure(ErrorOf(t[Len(t)])) ELSE Success(handle)
        /\ pc' = "done"
        /\ args' = NoArgs
        /\ UNCHANGED <<local_state, cache0, ncalls, disk>>

CreateExternalFileHandle(okCreate) ==
    /\ pc = "create_external_file_handle"
    /\ Execute(CreateExternalFileHandleSteps(args, nextId, okCreate),
               CreateExternalFileHandleResult(args, nextId))

UploadExternalFileHandleSftp(okCred, okUpload, okCreate) ==
    /\ pc = "upload_external_file_handle_sftp"
    /\ Execute(UploadExternalFileHandleSftpSteps(args, disk, nextId, okCred, okUpload, okCreate),
               UploadExternalFileHandleSftpResult(args, disk, nextId))

UploadSynapseS3(okUpload, okGet) ==
    /\ pc = "upload_synapse_s3"
    /\ Execute(UploadSynapseS3Steps(args, nextId, okUpload, okGet),
               UploadSynapseS3Result(args, nextId))

UploadClientAuthS3(okProfile, okUpload, okCreate) ==
    /\ pc = "upload_client_auth_s3"
    /\ Execute(UploadClientAuthS3Steps(args, nextId, okProfile, okUpload, okCreate),
               UploadClientAuthS3Result(args, nextId))

\* the caller takes the result; the next call may start
Return ==
    /\ pc = "done"
    /\ pc' = "idle"
    /\ local_state' = NoArgs
    /\ log' = <<>>
    /\ result' = NoResult
    /\ cache0' = cache
    /\ disk' = NoDisk
    /\ UNCHANGED <<args, cache, nextId, ncalls>>

Next ==
    \/ /\ pc = "idle"
       /\ \E ls \in LocalStates, d \in Disks, okResolve \in BOOLEAN, location \in Locations :
             UploadFile(ls, d, okResolve, location)
    \/ /\ pc = "create_external_file_handle"
       /\ \E okCreate \in BOOLEAN : CreateExternalFileHandle(okCreate)
    \/ /\ pc = "upload_external_file_handle_sftp"
       /\ \E okCred, okUpload, okCreate \in BOOLEAN :
             UploadExternalFileHandleSftp(okCred, okUpload, okCreate)
    \/ /\ pc = "upload_synapse_s3"
       /\ \E okUpload, okGet \in BOOLEAN : UploadSynapseS3(okUpload, okGet)
    \/ /\ pc = "upload_client_auth_s3"
       /\ \E okProfile, okUpload, okCreate \in BOOLEAN :
             UploadClientAuthS3(okProfile, okUpload, okCreate)
    \/ Return

Spec == Init /\ [][Next]_vars

(***************************************************************************)
(* Vocabulary of the properties                                            *)
(***************************************************************************)
InCall == pc /= "idle"
Done == pc = "done"

\* the positions of the log where op is called
At(op) == {i \in DOMAIN log : log[i].op = op}
Called(op) == At(op) /= {}

IssuanceOps == {"_create_ExternalFileHandle", "_create_ExternalObjectStoreFileHandle"}
TransferOps == {"multipart_upload", "SFTPWrapper.upload_file", "S3ClientWrapper.upload_file"}

\* a call with synapseStore false and the URL it refers to
ExternalCall == InCall /\ ~local_state.synapseStore
SuppliedUrl ==
    IF local_state.file_handle.externalURL /= None
    THEN local_state.file_handle.externalURL
    ELSE IF local_state.path \in RawPaths
    THEN "file://" \o expandvars(expanduser(local_state.path))
    ELSE None
SuppliedMd5 == local_state.file_handle.contentMd5
SuppliedSize == local_state.file_handle.contentSize
UrlPath == urlparse(SuppliedUrl).path

\* the URL is a file URL of a file that is on the disk
ExistingLocalFile ==
    /\ SuppliedUrl /= None
    /\ urlparse(SuppliedUrl).scheme = "file"
    /\ UrlPath \in AbsPaths
    /\ disk[UrlPath].isfile

\* a call with synapseStore true whose destination has been resolved
Resolved ==
    /\ InCall
    /\ local_state.synapseStore
    /\ log /= <<>>
    /\ log[1].op = "_getDefaultUploadDestination"
    /\ log[1].ok
Destination == log[1].location

(***************************************************************************)
(* C1: synapseStore false, the URL names an existing local file and the    *)
(* supplied contentMd5 is present and differs from the file's digest: the  *)
(* call fails with the checksum-mismatch error, no handle is issued or     *)
(* returned and nothing is added to the cache.                             *)
(***************************************************************************)
C1_Case ==
    /\ ExternalCall
    /\ ExistingLocalFile
    /\ SuppliedMd5 /= None
    /\ SuppliedMd5 /= disk[UrlPath].md5

C1_MismatchAborts ==
    C1_Case =>
        /\ Done
        /\ result = Failure("SynapseMd5MismatchError")
        /\ ~Called("_create_ExternalFileHandle")
        /\ ~Called("cache.add")
        /\ cache = cache0

C1_Witness == C1_Case /\ Done /\ result.status = "error"

(***************************************************************************)
(* C2: synapseStore false, the URL names an existing local file and the    *)
(* supplied contentMd5 is absent or equal to the file's digest: the handle *)
(* is issued with the computed digest and the file's actual size, the      *)
(* result is locally backed, and exactly one cache entry (issued id ->     *)
(* local path of the URL) is added, after the issuance.                    *)
(***************************************************************************)
C2_Case ==
    /\ ExternalCall
    /\ ExistingLocalFile
    /\ SuppliedMd5 = None \/ SuppliedMd5 = disk[UrlPath].md5

C2_VerifiedLocalHandle ==
    C2_Case =>
        /\ pc \in {"create_external_file_handle", "done"}
        /\ pc = "create_external_file_handle" =>
              /\ args.url = SuppliedUrl
              /\ args.md5 = disk[UrlPath].md5
              /\ args.file_size = disk[UrlPath].size
              /\ args.is_local_file
        /\ Done =>
              /\ Cardinality(At("_create_ExternalFileHandle")) = 1
              /\ \A i \in At("_create_ExternalFileHandle") :
                    /\ log[i].url = SuppliedUrl
                    /\ log[i].md5 = disk[UrlPath].md5
                    /\ log[i].fileSize = disk[UrlPath].size
              /\ result.status = "ok" =>
                    /\ result.handle.contentMd5 = disk[UrlPath].md5
                    /\ result.handle.contentSize = disk[UrlPath].size
                    /\ cache = Append(cache0, <<result.handle.id, UrlPath>>)
                    /\ Cardinality(At("cache.add")) = 1
                    /\ \A i \in At("cache.add") : \A j \in At("_create_ExternalFileHandle") :
                          j < i /\ log[j].ok /\ log[j].id = log[i].id
              /\ result.status = "error" => cache = cache0

C2_Witness ==
    /\ C2_Case
    /\ Done
    /\ result.status = "ok"
    /\ SuppliedSize /= NoneInt
    /\ SuppliedSize /= result.handle.contentSize
    /\ Len(cache) = Len(cache0) + 1

(***************************************************************************)
(* C3: synapseStore true, destination kind ExternalUpload with an          *)
(* uploadType other than "SFTP": the call fails with NotImplementedError   *)
(* and calls no credential, transfer, issuance or cache collaborator.      *)
(***************************************************************************)
C3_Case ==
    /\ Resolved
    /\ Destination.concreteType = EXTERNAL_UPLOAD_DESTINATION
    /\ Destination.uploadType /= "SFTP"

C3_UnsupportedUploadType ==
    C3_Case =>
        /\ Done
        /\ result = Failure("NotImplementedError")
        /\ Len(log) = 1
        /\ cache = cache0

C3_Witness == C3_Case /\ Done /\ result.status = "error"

(***************************************************************************)
(* C4: synapseStore true with a path: a destination of an unknown kind is  *)
(* no error, the file goes through multipart_upload with storageLocationId *)
(* None whatever the descriptor holds, and no SFTP or object-store         *)
(* transfer is made; for SynapseS3 and ExternalS3 multipart_upload gets    *)
(* the descriptor's storageLocationId.                                     *)
(***************************************************************************)
KnownKinds ==
    {SYNAPSE_S3_UPLOAD_DESTINATION, EXTERNAL_S3_UPLOAD_DESTINATION,
     EXTERNAL_UPLOAD_DESTINATION, EXTERNAL_OBJECT_STORE_UPLOAD_DESTINATION}

C4_Unknown == Resolved /\ Destination.concreteType \notin KnownKinds
C4_S3 ==
    /\ Resolved
    /\ Destination.concreteType \in {SYNAPSE_S3_UPLOAD_DESTINATION,
                                     EXTERNAL_S3_UPLOAD_DESTINATION}

\* the call goes through upload_synapse_s3 with storageLocationId sl
ViaSynapseS3(sl) ==
    /\ pc \in {"upload_synapse_s3", "done"}
    /\ pc = "upload_synapse_s3" =>
          /\ args.storageLocationId = sl
          /\ args.file_path = expandvars(expanduser(local_state.path))
    /\ Done =>
          /\ Len(log) >= 2
          /\ log[2].op = "multipart_upload"
          /\ log[2].storageLocationId = sl
          /\ log[2].path = expandvars(expanduser(local_state.path))
          /\ ~Called("SFTPWrapper.upload_file")
          /\ ~Called("S3ClientWrapper.upload_file")
          /\ result.status = "error" =>
                /\ ~log[Len(log)].ok
                /\ log[Len(log)].op \in {"multipart_upload", "_getFileHandle"}

C4_UnknownKindFallsBack ==
    /\ C4_Unknown => ViaSynapseS3(NoneInt)
    /\ C4_S3 => ViaSynapseS3(Destination.storageLocationId)

C4_Witness ==
    /\ C4_Unknown
    /\ Destination.storageLocationId /= NoneInt
    /\ Done
    /\ result.status = "ok"

(***************************************************************************)
(* C5: synapseStore true and the path unset (key missing or None): the     *)
(* call fails with an argument error, before the destination is resolved   *)
(* and before any transfer, issuance or cache collaborator is called.      *)
(***************************************************************************)
C5_Case == InCall /\ local_state.synapseStore /\ local_state.path \in {Absent, None}

\* the exceptions a missing or None argument surfaces as
ArgumentErrors == {"ValueError", "KeyError", "TypeError", "AttributeError"}

C5_PathRequired ==
    C5_Case =>
        /\ Done
        /\ result.status = "error"
        /\ result.error \in ArgumentErrors
        /\ log = <<>>
        /\ cache = cache0

C5_Witness == C5_Case /\ Done /\ local_state.path = None /\ result.status = "error"

(***************************************************************************)
(* C6: synapseStore false: the destination resolver, the transfer and the  *)
(* credential collaborators are never called; only the issuance of an      *)
(* external handle and cache.add can be, each at most once.                *)
(***************************************************************************)
C6_ExternalCallsNoTransfer ==
    ExternalCall =>
        /\ pc \in {"create_external_file_handle", "done"}
        /\ \A i \in DOMAIN log :
              log[i].op \in {"md5_for_file", "_create_ExternalFileHandle", "cache.add"}
        /\ Cardinality(At("_create_ExternalFileHandle")) <= 1
        /\ Cardinality(At("cache.add")) <= 1
        /\ Len(cache) <= Len(cache0) + 1

C6_Witness == ExternalCall /\ Done /\ Called("_create_ExternalFileHandle") /\ Called("cache.add")

(***************************************************************************)
(* C7: synapseStore false and a valid URL that does not name an existing   *)
(* local file: no digest is computed, the supplied contentMd5 and          *)
(* contentSize reach the issuance as supplied, the call never fails with   *)
(* the checksum-mismatch error and nothing is added to the cache.          *)
(***************************************************************************)
C7_Case ==
    /\ ExternalCall
    /\ SuppliedUrl /= None
    /\ is_url(SuppliedUrl)
    /\ ~ExistingLocalFile

C7_RemotePassThrough ==
    C7_Case =>
        /\ pc \in {"create_external_file_handle", "done"}
        /\ ~Called("md5_for_file")
        /\ pc = "create_external_file_handle" =>
              /\ args.md5 = SuppliedMd5
              /\ args.file_size = SuppliedSize
              /\ ~args.is_local_file
        /\ Done =>
              /\ Len(log) = 1
              /\ log[1].op = "_create_ExternalFileHandle"
              /\ log[1].url = SuppliedUrl
              /\ log[1].md5 = SuppliedMd5
              /\ log[1].fileSize = SuppliedSize
              /\ result /= Failure("SynapseMd5MismatchError")
              /\ result.status = "ok" =>
                    /\ result.handle.contentMd5 = SuppliedMd5
                    /\ result.handle.contentSize = SuppliedSize
              /\ cache = cache0

C7_Witness ==
    /\ C7_Case
    /\ Done
    /\ result.status = "ok"
    /\ urlparse(SuppliedUrl).scheme = "file"
    /\ SuppliedMd5 /= None

(***************************************************************************)
(* C8: in every executor the steps of one upload come in the order         *)
(* transfer (if any), handle issued or retrieved, cache registration: a    *)
(* cache.add for a handle id comes only after the FileHandle record of     *)
(* that id has been obtained (_create_ExternalFileHandle,                  *)
(* _create_ExternalObjectStoreFileHandle or _getFileHandle has returned),  *)
(* and the transfer comes before the issuance.                             *)
(***************************************************************************)
RecordOps == IssuanceOps \cup {"_getFileHandle"}

TransferBeforeRecord ==
    \A i, j \in DOMAIN log :
        log[i].op \in TransferOps /\ log[j].op \in RecordOps => i < j

\* the statement as claimed: it fails in upload_synapse_s3, which registers
\* the path before it calls _getFileHandle
C8_RegisteredAfterRecord ==
    /\ TransferBeforeRecord
    /\ \A i \in At("cache.add") :
          \E j \in DOMAIN log :
              /\ j < i
              /\ log[j].op \in RecordOps
              /\ log[j].ok
              /\ log[j].id = log[i].id

\* as amended: a cache.add for a handle id comes only after that id has been
\* handed out by the server (by the issuance of an external handle, or by
\* multipart_upload, which returns the id); upload_synapse_s3 registers the
\* path before it fetches the record with _getFileHandle
IdSourceOps == IssuanceOps \cup {"multipart_upload"}

C8_RegisteredAfterId ==
    /\ TransferBeforeRecord
    /\ \A i \in At("cache.add") :
          /\ \E j \in DOMAIN log :
                /\ j < i
                /\ log[j].op \in IdSourceOps
                /\ log[j].ok
                /\ log[j].id = log[i].id
          /\ \A j \in DOMAIN log : log[j].op \in TransferOps => j < i
          /\ \A j \in At("_getFileHandle") : i < j

C8_Witness ==
    /\ Done
    /\ result.status = "ok"
    /\ Called("SFTPWrapper.upload_file")
    /\ Called("_create_ExternalFileHandle")
    /\ Called("cache.add")

(***************************************************************************)
(* C9: over any sequence of calls the cache is only appended to, each call *)
(* adds at most one entry, and every successful call with synapseStore     *)
(* true adds exactly one entry: the id of the returned FileHandle -> the   *)
(* expanded local path.                                                    *)
(***************************************************************************)
IsPrefix(a, b) == Len(a) <= Len(b) /\ SubSeq(b, 1, Len(a)) = a

C9_Step ==
    /\ IsPrefix(cache, cache')
    /\ Len(cache') <= Len(cache) + 1
    /\ pc' /= "idle" => IsPrefix(cache0', cache') /\ Len(cache') <= Len(cache0') + 1
    /\ (pc' = "done" /\ result'.status = "ok" /\ local_state'.synapseStore) =>
          cache' = Append(cache0', <<result'.handle.id,
                                     expandvars(expanduser(local_state'.path))>>)

C9_CacheAppendOnly == [][C9_Step]_vars

C9_Witness ==
    /\ Done
    /\ result.status = "ok"
    /\ local_state.synapseStore
    /\ local_state.path = "$TMP/b.txt"
    /\ Len(cache) = 2

(***************************************************************************)
(* C10: a call that ends with an error leaves the cache as it was before   *)
(* the call.                                                               *)
(***************************************************************************)
\* the statement as claimed: it fails when _getFileHandle raises, after
\* upload_synapse_s3 has registered the path
C10_ErrorLeavesCache == (Done /\ result.status = "error") => cache = cache0

\* the call failed in the _getFileHandle of upload_synapse_s3
FetchFailed ==
    /\ log /= <<>>
    /\ log[Len(log)].op = "_getFileHandle"
    /\ ~log[Len(log)].ok

\* as amended: a call that ends with an error leaves the cache as it was,
\* except when the error is _getFileHandle's in upload_synapse_s3: then the
\* entry (id returned by multipart_upload -> local path) has been added
C10_ErrorLeavesCacheUnlessFetch ==
    (Done /\ result.status = "error") =>
        IF FetchFailed
        THEN \E i \in At("multipart_upload") :
                /\ log[i].ok
                /\ cache = Append(cache0, <<log[i].id, log[i].path>>)
        ELSE cache = cache0

C10_Witness ==
    /\ Done
    /\ result.status = "error"
    /\ ~FetchFailed
    /\ Called("S3ClientWrapper.upload_file")
    /\ Called("_create_ExternalObjectStoreFileHandle")

=============================================================================
